---- MODULE Spec2Model ----
\* Request lifecycle of the office procurement server: createRequest,
\* managerActionOnRequest and adminProcessRequest running against the shared
\* users / items / requests / request_items tables.
\*
\* Every handler is an async function: each `await db...execute()` is one
\* round trip to the database, and the server interleaves the handlers of
\* concurrent calls between round trips.  A call therefore occupies a slot of
\* `calls` and advances one round trip per step; the step that starts a call
\* also performs its first query (nothing shared is touched before it).
\*
\* Money is kept in cents.  Time is counted in ticks of the database clock.
\* The updated_at columns are left out: the handlers write them and never
\* read them.  `mgrWrites` and `trail` record history: the successful manager
\* writes per request and, for the requests in DOMAIN trail, the statuses the
\* request was given, in order.
EXTENDS Integers, Sequences, FiniteSets, TLC

VARIABLES users, items, requests, request_items, calls, last, mgrWrites, trail

vars == <<users, items, requests, request_items, calls, last, mgrWrites, trail>>

-----------------------------------------------------------------------------
\* Bounds of the model

\* number of calls the server has in flight at once
MaxCalls == 2
\* number of rows the requests table may hold
MaxRequests == 1

\* number of requests the data of the read handlers holds
MaxReadRequests == 2

-----------------------------------------------------------------------------
\* Values

\* SQL NULL / JS null; a non-null column value v is the 1-tuple <<v>>
Null == <<>>

Some(v) == <<v>>

\* an optional payload field that the caller left out (JS undefined)
Undefined == [given |-> FALSE, val |-> Null]

\* an optional payload field that the caller supplied (v is Null or Some(x))
Given(v) == [given |-> TRUE, val |-> v]

userRoleEnum == {"super_admin", "manager", "staff"}

requestStatusEnum ==
    {"pending", "manager_approved", "manager_rejected", "admin_processing",
     "purchased", "received", "cancelled"}

AdminActions == {"start_processing", "mark_purchased", "mark_received", "cancel"}

ManagerActions == {"approve", "reject"}

\* The users table.  Rows are written by createUser / updateUser; the
\* directory used here holds one user per (role, is_active) combination the
\* lifecycle handlers tell apart.
usersTable ==
    [id \in 1..5 |->
        CASE id = 1 -> [role |-> "super_admin", is_active |-> TRUE]
          [] id = 2 -> [role |-> "manager",     is_active |-> TRUE]
          [] id = 3 -> [role |-> "staff",       is_active |-> TRUE]
          [] id = 4 -> [role |-> "super_admin", is_active |-> FALSE]
          [] id = 5 -> [role |-> "manager",     is_active |-> FALSE]]

\* an id that resolves to no user
NoUser == 6

UserIds == DOMAIN usersTable \cup {NoUser}

\* The categories table: two active categories and an inactive one.
categoriesTable ==
    [id \in 1..3 |-> [id |-> id, is_active |-> (id # 2)]]

\* The items table: estimated_price in cents (numeric(10,2)) or NULL.  The
\* name, description and unit columns are left out: no handler modelled here
\* reads them.
itemsTable ==
    [id \in 1..4 |->
        CASE id = 1 -> [category_id |-> 1, estimated_price |-> Some(599),
                        is_active |-> TRUE]
          [] id = 2 -> [category_id |-> 3, estimated_price |-> Null,
                        is_active |-> TRUE]
          [] id = 3 -> [category_id |-> 1, estimated_price |-> Some(1250),
                        is_active |-> FALSE]
          [] id = 4 -> [category_id |-> 1, estimated_price |-> Some(250),
                        is_active |-> TRUE]]

\* an id that resolves to no item
NoItem == 9

\* request ids a caller may name; a row that has not been created yet is a
\* request that does not exist
RequestIds == 1..MaxRequests

\* the input of a slot that holds no call
noInput == [none |-> TRUE]

idle == [op |-> "idle", pc |-> "idle", input |-> noInput, seen |-> "none",
         data |-> Null]

NoError == [kind |-> "none", text |-> "", action |-> "", status |-> ""]

\* no call has completed yet
noCall == [op |-> "none", input |-> noInput, ok |-> FALSE, error |-> NoError,
           seen |-> "none"]

-----------------------------------------------------------------------------
\* Query helpers

\* db.select().from(usersTable).where(eq(usersTable.id, id)): the rows found
selectUser(id) == IF id \in DOMAIN users THEN {users[id]} ELSE {}

\* db.select().from(requestsTable).where(eq(requestsTable.id, id))
selectRequest(id) == IF id \in DOMAIN requests THEN {requests[id]} ELSE {}

\* JS `x || null` on an optional nullable string
OrNull(f) == IF f.given /\ f.val # Null /\ f.val # Some("") THEN f.val ELSE Null

\* the history after request r was given a status
recorded(r, status) ==
    IF r \in DOMAIN trail THEN [trail EXCEPT ![r] = Append(@, status)] ELSE trail

\* the slot returns to idle and the outcome of the call is what the caller sees
Finish(c, outcome) ==
    /\ calls' = [calls EXCEPT ![c] = idle]
    /\ last' = outcome

Throw(c, err) ==
    Finish(c, [op |-> calls[c].op, input |-> calls[c].input, ok |-> FALSE,
               error |-> err, seen |-> calls[c].seen])

-----------------------------------------------------------------------------
\* adminProcessRequest

\* the acting user must exist ...
adminFound(rows) == rows # {}

\* the role check left out
adminRoleOk_anyRole(u) == TRUE

\* managers let through the role check
adminRoleOk_managersToo(u) == u.role \in {"super_admin", "manager"}

\* ... and have the super_admin role
adminRoleOk(u) == u.role = "super_admin"

\* mark_purchased also allowed straight from manager_approved
validTransitions_skipProcessing(status) ==
    CASE status = "manager_approved" -> {"start_processing", "mark_purchased", "cancel"}
      [] status = "admin_processing" -> {"mark_purchased", "cancel"}
      [] status = "purchased"        -> {"mark_received", "cancel"}
      [] OTHER                       -> {}

\* cancel also allowed from pending
validTransitions_cancelPending(status) ==
    CASE status = "pending"          -> {"cancel"}
      [] status = "manager_approved" -> {"start_processing", "cancel"}
      [] status = "admin_processing" -> {"mark_purchased", "cancel"}
      [] status = "purchased"        -> {"mark_received", "cancel"}
      [] OTHER                       -> {}

\* start_processing also allowed from pending
validTransitions_processPending(status) ==
    CASE status = "pending"          -> {"start_processing"}
      [] status = "manager_approved" -> {"start_processing", "cancel"}
      [] status = "admin_processing" -> {"mark_purchased", "cancel"}
      [] status = "purchased"        -> {"mark_received", "cancel"}
      [] OTHER                       -> {}

\* actions allowed from each status; a status without an entry allows none
validTransitions(status) ==
    CASE status = "manager_approved" -> {"start_processing", "cancel"}
      [] status = "admin_processing" -> {"mark_purchased", "cancel"}
      [] status = "purchased"        -> {"mark_received", "cancel"}
      [] status = "received"         -> {}
      [] status = "cancelled"        -> {}
      [] OTHER                       -> {}

\* cancel sending the request back to the admin queue
newStatusOf_reopen(action) ==
    CASE action = "start_processing" -> "admin_processing"
      [] action = "mark_purchased"   -> "purchased"
      [] action = "mark_received"    -> "received"
      [] action = "cancel"           -> "manager_approved"

\* the status an action leads to
newStatusOf(action) ==
    CASE action = "start_processing" -> "admin_processing"
      [] action = "mark_purchased"   -> "purchased"
      [] action = "mark_received"    -> "received"
      [] action = "cancel"           -> "cancelled"

\* every optional column written, an absent field as null
adminUpdateData_clearAbsent(row, input) ==
    [row EXCEPT
        !.status        = newStatusOf(input.action),
        !.admin_id      = Some(input.admin_id),
        !.admin_notes   = input.notes.val,
        !.actual_cost   = input.actual_cost.val,
        !.purchase_date = input.purchase_date.val,
        !.received_date = input.received_date.val]

\* the row after db.update(requestsTable).set(updateData): status and admin_id
\* always, every other column only when the payload carries the field
adminUpdateData(row, input) ==
    [row EXCEPT
        !.status        = newStatusOf(input.action),
        !.admin_id      = Some(input.admin_id),
        !.admin_notes   = IF input.notes.given THEN input.notes.val ELSE @,
        !.actual_cost   = IF input.actual_cost.given THEN input.actual_cost.val ELSE @,
        !.purchase_date = IF input.purchase_date.given THEN input.purchase_date.val ELSE @,
        !.received_date = IF input.received_date.given THEN input.received_date.val ELSE @]

\* the message without the current status
invalidTransitionError_noStatus(action, status) ==
    [kind |-> "InvalidState", text |-> "Cannot perform action",
     action |-> action, status |-> ""]

\* `Cannot perform action '${input.action}' on request with status
\* '${request.status}'`
invalidTransitionError(action, status) ==
    [kind |-> "InvalidState",
     text |-> "Cannot perform action on request with status",
     action |-> action, status |-> status]

\* the call arrives and its first query looks the acting user up
AdminBegin(c, input) ==
    /\ calls[c].op = "idle"
    /\ LET adminUser == selectUser(input.admin_id)
           me == [op |-> "admin", pc |-> "readRequest", input |-> input,
                  seen |-> "none", data |-> Null]
       IN  IF ~adminFound(adminUser)
           THEN Finish(c, [op |-> "admin", input |-> input, ok |-> FALSE,
                           error |-> [kind |-> "Forbidden", text |-> "Admin user not found",
                                      action |-> "", status |-> ""],
                           seen |-> "none"])
           ELSE IF ~adminRoleOk(CHOOSE u \in adminUser : TRUE)
           THEN Finish(c, [op |-> "admin", input |-> input, ok |-> FALSE,
                           error |-> [kind |-> "Forbidden",
                                      text |-> "Only Super Admin can process requests",
                                      action |-> "", status |-> ""],
                           seen |-> "none"])
           ELSE /\ calls' = [calls EXCEPT ![c] = me]
                /\ UNCHANGED last
    /\ UNCHANGED <<users, items, requests, request_items, mgrWrites, trail>>

\* second query: read the request and validate the transition against it
AdminReadRequest(c) ==
    /\ calls[c].op = "admin"
    /\ calls[c].pc = "readRequest"
    /\ LET input == calls[c].input
           existingRequest == selectRequest(input.request_id)
       IN  IF existingRequest = {}
           THEN Throw(c, [kind |-> "NotFound", text |-> "Request not found",
                          action |-> "", status |-> ""])
           ELSE LET request == CHOOSE r \in existingRequest : TRUE
                IN  IF input.action \notin validTransitions(request.status)
                    THEN Finish(c, [op |-> "admin", input |-> input, ok |-> FALSE,
                                    error |-> invalidTransitionError(input.action,
                                                                     request.status),
                                    seen |-> request.status])
                    ELSE /\ calls' = [calls EXCEPT ![c].pc = "update",
                                                   ![c].seen = request.status]
                         /\ UNCHANGED last
    /\ UNCHANGED <<users, items, requests, request_items, mgrWrites, trail>>

\* third round trip: UPDATE requests SET ... WHERE id = request_id
AdminUpdate(c) ==
    /\ calls[c].op = "admin"
    /\ calls[c].pc = "update"
    /\ LET input == calls[c].input
       IN  IF input.request_id \in DOMAIN requests
           THEN /\ requests' = [requests EXCEPT ![input.request_id] =
                                    adminUpdateData(@, input)]
                /\ trail' = recorded(input.request_id, newStatusOf(input.action))
                /\ Finish(c, [op |-> "admin", input |-> input, ok |-> TRUE,
                              error |-> NoError, seen |-> calls[c].seen])
           ELSE /\ UNCHANGED <<requests, trail>>
                /\ Throw(c, [kind |-> "Error", text |-> "Failed to update request",
                             action |-> "", status |-> ""])
    /\ UNCHANGED <<users, items, request_items, mgrWrites>>

-----------------------------------------------------------------------------
\* managerActionOnRequest

\* the status check left out
managerStatusOk_anyStatus(status) == TRUE

\* the status check skipped when the previous manager call failed
managerStatusOk_retryPasses(status) ==
    status = "pending" \/ (last.op = "manager" /\ ~last.ok)

\* the request must be in 'pending' status
managerStatusOk(status) == status = "pending"

\* the is_active condition left out of the query
selectManager_ignoreActive(id) == {u \in selectUser(id) : u.role = "manager"}

\* db.select().from(usersTable).where(and(id = manager_id, role = 'manager',
\* is_active = true)): the rows found
selectManager(id) ==
    {u \in selectUser(id) : u.role = "manager" /\ u.is_active = TRUE}

managerNewStatus(action) ==
    IF action = "approve" THEN "manager_approved" ELSE "manager_rejected"

\* the estimated total cleared along with the decision
managerUpdateData_dropsTotal(row, input) ==
    [row EXCEPT
        !.status        = managerNewStatus(input.action),
        !.manager_id    = Some(input.manager_id),
        !.manager_notes = OrNull(input.notes),
        !.total_estimated_cost = Null]

\* the row after db.update(requestsTable).set({status, manager_id, manager_notes})
managerUpdateData(row, input) ==
    [row EXCEPT
        !.status        = managerNewStatus(input.action),
        !.manager_id    = Some(input.manager_id),
        !.manager_notes = OrNull(input.notes)]

\* the call arrives and its first query reads the request
ManagerBegin(c, input) ==
    /\ calls[c].op = "idle"
    /\ LET existingRequest == selectRequest(input.request_id)
       IN  IF existingRequest = {}
           THEN Finish(c, [op |-> "manager", input |-> input, ok |-> FALSE,
                           error |-> [kind |-> "NotFound",
                                      text |-> "Request with ID not found",
                                      action |-> "", status |-> ""],
                           seen |-> "none"])
           ELSE LET request == CHOOSE r \in existingRequest : TRUE
                IN  IF ~managerStatusOk(request.status)
                    THEN Finish(c, [op |-> "manager", input |-> input, ok |-> FALSE,
                                    error |-> [kind |-> "InvalidState",
                                               text |-> "Request is not in pending status. Current status:",
                                               action |-> "",
                                               status |-> request.status],
                                    seen |-> request.status])
                    ELSE /\ calls' = [calls EXCEPT ![c] =
                                        [op |-> "manager", pc |-> "readManager",
                                         input |-> input, seen |-> request.status,
                                         data |-> Null]]
                         /\ UNCHANGED last
    /\ UNCHANGED <<users, items, requests, request_items, mgrWrites, trail>>

\* second query: the acting user must be an active manager
ManagerReadManager(c) ==
    /\ calls[c].op = "manager"
    /\ calls[c].pc = "readManager"
    /\ IF selectManager(calls[c].input.manager_id) = {}
       THEN Throw(c, [kind |-> "Forbidden",
                      text |-> "Manager with ID not found or not active",
                      action |-> "", status |-> ""])
       ELSE /\ calls' = [calls EXCEPT ![c].pc = "update"]
            /\ UNCHANGED last
    /\ UNCHANGED <<users, items, requests, request_items, mgrWrites, trail>>

\* third round trip: UPDATE requests SET ... WHERE id = request_id; the handler
\* returns result[0] (rows are never deleted, so the row is there)
ManagerUpdate(c) ==
    /\ calls[c].op = "manager"
    /\ calls[c].pc = "update"
    /\ LET input == calls[c].input
       IN  /\ input.request_id \in DOMAIN requests
           /\ requests' = [requests EXCEPT ![input.request_id] =
                               managerUpdateData(@, input)]
           /\ mgrWrites' = [mgrWrites EXCEPT ![input.request_id] = @ + 1]
           /\ trail' = recorded(input.request_id, managerNewStatus(input.action))
           /\ Finish(c, [op |-> "manager", input |-> input, ok |-> TRUE,
                         error |-> NoError, seen |-> calls[c].seen])
    /\ UNCHANGED <<users, items, request_items>>

-----------------------------------------------------------------------------
\* createRequest

\* the is_active condition left out of the query
selectActiveUser_ignoreActive(id) == selectUser(id)

\* db.select().from(usersTable).where(and(id = staff_id, is_active = true))
selectActiveUser(id) == {u \in selectUser(id) : u.is_active = TRUE}

\* input.items.map(item => item.item_id)
itemIdsOf(reqItems) == [i \in 1..Len(reqItems) |-> reqItems[i].item_id]

\* ids of the rows of db.select().from(itemsTable).where(and(inArray(id,
\* itemIds), is_active = true)): each matching row once
selectActiveItems(itemIds) ==
    {id \in DOMAIN items :
        /\ \E i \in 1..Len(itemIds) : itemIds[i] = id
        /\ items[id].is_active = TRUE}

\* a price of 0 taken for a missing price
itemPriceMap_zeroIsNull(found) ==
    [id \in found |-> IF items[id].estimated_price = Some(0) THEN Null
                      ELSE items[id].estimated_price]

\* item id -> price: parseFloat of the stored numeric, or null when it is NULL
\* (the stored text of a price, '0.00' included, is a non-empty string)
itemPriceMap(found) == [id \in found |-> items[id].estimated_price]

hasAllPrices(reqItems, priceMap) ==
    \A i \in 1..Len(reqItems) : priceMap[reqItems[i].item_id] # Null

RECURSIVE reduceTotal(_, _, _)
\* input.items.reduce((total, reqItem) => total + price * quantity, 0)
reduceTotal(reqItems, priceMap, i) ==
    IF i = 0 THEN 0
    ELSE reduceTotal(reqItems, priceMap, i - 1)
         + priceMap[reqItems[i].item_id][1] * reqItems[i].quantity

\* null unless every line has a price
totalEstimatedCost(reqItems, priceMap) ==
    IF hasAllPrices(reqItems, priceMap)
    THEN Some(reduceTotal(reqItems, priceMap, Len(reqItems)))
    ELSE Null

\* `totalEstimatedCost ? totalEstimatedCost.toString() : null`: 0 is falsy
storedTotal(total) == IF total # Null /\ total # Some(0) THEN total ELSE Null

\* the row db.insert(requestsTable).values({...}) creates; every column the
\* handler does not name takes its schema default.  created_at is now(): the
\* clock ticks between two inserts, so the tick of a row is its rank.
newRequestRow(input, total) ==
    [created_at |-> Len(requests) + 1,
     staff_id |-> input.staff_id,
     title |-> input.title,
     justification |-> OrNull(input.justification),
     status |-> "pending",
     manager_id |-> Null, manager_notes |-> Null,
     admin_id |-> Null, admin_notes |-> Null,
     total_estimated_cost |-> storedTotal(total),
     actual_cost |-> Null, purchase_date |-> Null, received_date |-> Null]

\* the rows inserted into request_items, one per input entry;
\* `price?.toString() || null` is null only for a null price, the text of a
\* number ('0' included) being a non-empty string
requestItemsData(request_id, reqItems, priceMap) ==
    [i \in 1..Len(reqItems) |->
        [request_id |-> request_id,
         item_id |-> reqItems[i].item_id,
         quantity |-> reqItems[i].quantity,
         estimated_unit_cost |-> priceMap[reqItems[i].item_id],
         actual_unit_cost |-> Null,
         notes |-> OrNull(reqItems[i].notes)]]

\* calls that will still insert a request row
pendingInserts ==
    {d \in DOMAIN calls : calls[d].op = "create"
                          /\ calls[d].pc \in {"readItems", "insertRequest"}}

\* the call arrives and its first query looks the staff user up; a run is
\* bounded to the request ids its mgrWrites counts for
CreateBegin(c, input) ==
    /\ calls[c].op = "idle"
    /\ Len(requests) + Cardinality(pendingInserts) < Cardinality(DOMAIN mgrWrites)
    /\ IF selectActiveUser(input.staff_id) = {}
       THEN Finish(c, [op |-> "create", input |-> input, ok |-> FALSE,
                       error |-> [kind |-> "NotFound",
                                  text |-> "Staff user not found or inactive",
                                  action |-> "", status |-> ""],
                       seen |-> "none"])
       ELSE /\ calls' = [calls EXCEPT ![c] =
                           [op |-> "create", pc |-> "readItems", input |-> input,
                            seen |-> "none", data |-> Null]]
            /\ UNCHANGED last
    /\ UNCHANGED <<users, items, requests, request_items, mgrWrites, trail>>

\* second query: the items; then the price map and the total are computed
CreateReadItems(c) ==
    /\ calls[c].op = "create"
    /\ calls[c].pc = "readItems"
    /\ LET reqItems == calls[c].input.items
           itemIds == itemIdsOf(reqItems)
           found == selectActiveItems(itemIds)
       IN  IF Cardinality(found) # Len(itemIds)
           THEN Throw(c, [kind |-> "NotFound",
                          text |-> "One or more items not found or inactive",
                          action |-> "", status |-> ""])
           ELSE /\ calls' = [calls EXCEPT
                                ![c].pc = "insertRequest",
                                ![c].data =
                                    [priceMap |-> itemPriceMap(found),
                                     total |-> totalEstimatedCost(reqItems,
                                                   itemPriceMap(found)),
                                     request_id |-> 0]]
                /\ UNCHANGED last
    /\ UNCHANGED <<users, items, requests, request_items, mgrWrites, trail>>

\* third round trip: INSERT INTO requests ... RETURNING
CreateInsertRequest(c) ==
    /\ calls[c].op = "create"
    /\ calls[c].pc = "insertRequest"
    /\ requests' = Append(requests, newRequestRow(calls[c].input, calls[c].data.total))
    /\ calls' = [calls EXCEPT ![c].pc = "insertItems",
                              ![c].data.request_id = Len(requests) + 1]
    /\ trail' = recorded(Len(requests) + 1, "pending")
    /\ UNCHANGED <<users, items, request_items, last, mgrWrites>>

\* fourth round trip: INSERT INTO request_items; the database accepts it
CreateInsertItems(c) ==
    /\ calls[c].op = "create"
    /\ calls[c].pc = "insertItems"
    /\ request_items' = request_items \o
           requestItemsData(calls[c].data.request_id, calls[c].input.items,
                            calls[c].data.priceMap)
    /\ Finish(c, [op |-> "create", input |-> calls[c].input, ok |-> TRUE,
                  error |-> NoError, seen |-> "none"])
    /\ UNCHANGED <<users, items, requests, mgrWrites, trail>>

\* An INSERT is rejected by the database (a quantity beyond the integer
\* column, a total beyond numeric(10,2), a lost connection): the statement
\* writes nothing, the catch block logs and rethrows.  The handler opens no
\* transaction, so what an earlier statement of the call inserted stays.
CreateStatementFails(c) ==
    /\ calls[c].op = "create"
    /\ calls[c].pc \in {"insertRequest", "insertItems"}
    /\ Throw(c, [kind |-> "Error", text |-> "Request creation failed",
                 action |-> "", status |-> ""])
    /\ UNCHANGED <<users, items, requests, request_items, mgrWrites, trail>>

-----------------------------------------------------------------------------
\* updateItem

\* db.select().from(itemsTable).where(eq(itemsTable.id, id)): the rows found
selectItem(id) == IF id \in DOMAIN items THEN {items[id]} ELSE {}

\* db.select().from(categoriesTable).where(and(id = category_id,
\* is_active = true))
selectActiveCategory(id) ==
    IF id \in DOMAIN categoriesTable /\ categoriesTable[id].is_active
    THEN {categoriesTable[id]} ELSE {}

\* input.estimated_price.toString() stored in a numeric(10,2) column: a price
\* given in thousandths is rounded to cents, half away from zero
toNumeric2(mills) == (mills + 5) \div 10

\* the row after db.update(itemsTable).set(updateData): only the fields the
\* payload carries
itemUpdateData(row, input) ==
    [row EXCEPT
        !.category_id     = IF input.category_id.given
                            THEN input.category_id.val[1] ELSE @,
        !.estimated_price = IF input.estimated_price.given
                            THEN IF input.estimated_price.val # Null
                                 THEN Some(toNumeric2(input.estimated_price.val[1]))
                                 ELSE Null
                            ELSE @,
        !.is_active       = IF input.is_active.given
                            THEN input.is_active.val[1] ELSE @]

\* the call arrives and its first query looks the item up
UpdateItemBegin(c, input) ==
    /\ calls[c].op = "idle"
    /\ IF selectItem(input.id) = {}
       THEN Finish(c, [op |-> "updateItem", input |-> input, ok |-> FALSE,
                       error |-> [kind |-> "NotFound",
                                  text |-> "Item with id not found",
                                  action |-> "", status |-> ""],
                       seen |-> "none"])
       ELSE /\ calls' = [calls EXCEPT ![c] =
                           [op |-> "updateItem",
                            pc |-> IF input.category_id.given
                                   THEN "checkCategory" ELSE "update",
                            input |-> input, seen |-> "none", data |-> Null]]
            /\ UNCHANGED last
    /\ UNCHANGED <<users, items, requests, request_items, mgrWrites, trail>>

\* only when category_id is supplied: the category must exist and be active
UpdateItemCheckCategory(c) ==
    /\ calls[c].op = "updateItem"
    /\ calls[c].pc = "checkCategory"
    /\ IF selectActiveCategory(calls[c].input.category_id.val[1]) = {}
       THEN Throw(c, [kind |-> "NotFound",
                      text |-> "Active category with id not found",
                      action |-> "", status |-> ""])
       ELSE /\ calls' = [calls EXCEPT ![c].pc = "update"]
            /\ UNCHANGED last
    /\ UNCHANGED <<users, items, requests, request_items, mgrWrites, trail>>

\* last round trip: UPDATE items SET ... WHERE id = input.id; the handler
\* returns result[0] (items are never deleted, so the row is there)
UpdateItemUpdate(c) ==
    /\ calls[c].op = "updateItem"
    /\ calls[c].pc = "update"
    /\ LET input == calls[c].input
       IN  /\ input.id \in DOMAIN items
           /\ items' = [items EXCEPT ![input.id] = itemUpdateData(@, input)]
           /\ Finish(c, [op |-> "updateItem", input |-> input, ok |-> TRUE,
                         error |-> NoError, seen |-> "none"])
    /\ UNCHANGED <<users, requests, request_items, mgrWrites, trail>>

-----------------------------------------------------------------------------
\* The read handlers.  Each is a function of the tables; a numeric column is
\* returned through `text ? parseFloat(text) : null`, which maps NULL to null
\* and the text of a number ('0.00' included, a non-empty string) to that
\* number.

\* a row of the users table as the handlers return it
userProjection(id) ==
    IF id \in DOMAIN users
    THEN Some([id |-> id, role |-> users[id].role,
               is_active |-> users[id].is_active])
    ELSE Null

\* `request.manager_id ? users.find(u => u.id === request.manager_id) || null
\* : null`, and the same for admin_id
projectionOf(idColumn) ==
    IF idColumn # Null /\ idColumn # Some(0)
    THEN userProjection(idColumn[1]) ELSE Null

\* does a request_items row join an item and that item's category
joinsItemAndCategory(l) ==
    /\ l.item_id \in DOMAIN items
    /\ items[l.item_id].category_id \in DOMAIN categoriesTable

\* a request_items row with its item and the item's category
lineView(l) ==
    [line |-> l,
     item |-> items[l.item_id],
     category |-> categoriesTable[items[l.item_id].category_id]]

\* request_items INNER JOIN items INNER JOIN categories WHERE request_id = r
hydratedItems(r) ==
    LET Joined(l) == l.request_id = r /\ joinsItemAndCategory(l)
        rows == SelectSeq(request_items, Joined)
    IN  [k \in 1..Len(rows) |-> lineView(rows[k])]

\* a request with its staff, manager and admin users and its line items
requestView(r) ==
    [id |-> r,
     request |-> requests[r],
     staff |-> userProjection(requests[r].staff_id),
     manager |-> projectionOf(requests[r].manager_id),
     admin |-> projectionOf(requests[r].admin_id),
     items |-> hydratedItems(r)]

\* getRequestById: requests INNER JOIN staff LEFT JOIN manager LEFT JOIN admin
\* WHERE id; null when no row comes back
getRequestById(id) ==
    IF id \in DOMAIN requests /\ requests[id].staff_id \in DOMAIN users
    THEN Some(requestView(id)) ELSE Null

RECURSIVE orderByCreatedAtDesc(_)
\* ORDER BY created_at DESC over the requests of a set of ids
orderByCreatedAtDesc(ids) ==
    IF ids = {} THEN <<>>
    ELSE LET first == CHOOSE r \in ids :
                         \A q \in ids : requests[q].created_at <= requests[r].created_at
         IN  <<first>> \o orderByCreatedAtDesc(ids \ {first})

\* getStaffRequests without its user lookup
getStaffRequests_noUserCheck(staffId) ==
    LET ordered == orderByCreatedAtDesc(
                       {r \in DOMAIN requests : requests[r].staff_id = staffId})
    IN  [ok |-> TRUE, kind |-> "none",
         rows |-> [k \in 1..Len(ordered) |->
                      [requestView(ordered[k]) EXCEPT
                          !.staff = userProjection(staffId)]]]

\* getStaffRequests: the user must exist (whatever its role and activity);
\* then the requests WHERE staff_id = staffId ORDER BY created_at DESC
getStaffRequests(staffId) ==
    IF selectUser(staffId) = {}
    THEN [ok |-> FALSE, kind |-> "NotFound", rows |-> <<>>]
    ELSE LET ordered == orderByCreatedAtDesc(
                            {r \in DOMAIN requests : requests[r].staff_id = staffId})
         IN  [ok |-> TRUE, kind |-> "none",
              rows |-> [k \in 1..Len(ordered) |->
                           [requestView(ordered[k]) EXCEPT
                               !.staff = userProjection(staffId)]]]

\* the JS truth of an optional filter field: a number, a string, a Date
truthyNumber(f) == f.given /\ f.val # Null /\ f.val[1] # 0

truthyString(f) == f.given /\ f.val # Null /\ f.val[1] # ""

truthyDate(f) == f.given /\ f.val # Null

\* the conditions getRequests pushes for a filter, ANDed
filterConditions(r, filter) ==
    /\ truthyString(filter.status) => requests[r].status = filter.status.val[1]
    /\ truthyNumber(filter.staff_id) => requests[r].staff_id = filter.staff_id.val[1]
    /\ truthyNumber(filter.manager_id)
          => requests[r].manager_id = Some(filter.manager_id.val[1])
    /\ truthyDate(filter.date_from)
          => requests[r].created_at >= filter.date_from.val[1]
    /\ truthyDate(filter.date_to)
          => requests[r].created_at <= filter.date_to.val[1]

\* getRequests: requests INNER JOIN users ON staff_id WHERE the conditions;
\* the query has no ORDER BY, the rows are listed here in table order
getRequests(filter) ==
    LET Selected(r) == /\ requests[r].staff_id \in DOMAIN users
                       /\ filterConditions(r, filter)
        found == SelectSeq([r \in 1..Len(requests) |-> r], Selected)
    IN  [k \in 1..Len(found) |-> requestView(found[k])]

\* the rows of an INNER JOIN instead: none for a request without lines
leftJoinRows_inner(r) ==
    LET Mine(l) == l.request_id = r
        lines == SelectSeq(request_items, Mine)
    IN  [k \in 1..Len(lines) |-> [request_id |-> r, line |-> Some(lines[k])]]

\* The rows of requests LEFT JOIN request_items for one request: one row per
\* line, or a single row with a null line when the request has none.
leftJoinRows(r) ==
    LET Mine(l) == l.request_id = r
        lines == SelectSeq(request_items, Mine)
    IN  IF lines = <<>> THEN <<[request_id |-> r, line |-> Null]>>
        ELSE [k \in 1..Len(lines) |-> [request_id |-> r, line |-> Some(lines[k])]]

RECURSIVE joinRowsOf(_)
\* the result rows of the pending query for a sequence of request ids
joinRowsOf(ordered) ==
    IF ordered = <<>> THEN <<>>
    ELSE leftJoinRows(Head(ordered)) \o joinRowsOf(Tail(ordered))

RECURSIVE groupByRequest(_, _)
\* The Map the handler fills: the first row of a request creates its entry
\* with manager null, admin null and items []; a row that carries a line, an
\* item and a category pushes one item.
groupByRequest(rows, grouped) ==
    IF rows = <<>> THEN grouped
    ELSE LET row == Head(rows)
             r == row.request_id
             known == \E k \in 1..Len(grouped) : grouped[k].id = r
             entered == IF known THEN grouped
                        ELSE Append(grouped,
                                    [id |-> r,
                                     request |-> requests[r],
                                     staff |-> userProjection(requests[r].staff_id),
                                     manager |-> Null,
                                     admin |-> Null,
                                     items |-> <<>>])
             at == CHOOSE k \in 1..Len(entered) : entered[k].id = r
             pushed == IF row.line # Null /\ joinsItemAndCategory(row.line[1])
                       THEN [entered EXCEPT
                                ![at].items = Append(@, lineView(row.line[1]))]
                       ELSE entered
         IN  groupByRequest(Tail(rows), pushed)

\* a WHERE clause that lets every status through
pendingCondition_anyStatus(r) == requests[r].status \in requestStatusEnum

\* the WHERE clause of the pending query
pendingCondition(r) == requests[r].status = "pending"

\* getPendingRequestsForManager: one query, requests INNER JOIN staff LEFT
\* JOIN request_items, items, categories WHERE status = 'pending' ORDER BY
\* created_at DESC, then grouped by request id
getPendingRequestsForManager ==
    LET ordered == orderByCreatedAtDesc(
                       {r \in DOMAIN requests :
                           /\ requests[r].staff_id \in DOMAIN users
                           /\ pendingCondition(r)})
    IN  groupByRequest(joinRowsOf(ordered), <<>>)

\* SELECT status, count(*) FROM requests GROUP BY status: the count of a group
statusCount(status) ==
    Cardinality({r \in DOMAIN requests : requests[r].status = status})

\* a switch that counts the received requests as approved too
approvedStatuses_withReceived ==
    {"manager_approved", "admin_processing", "purchased", "received"}

\* the statuses the switch of getReports adds to approvedRequests
approvedStatuses == {"manager_approved", "admin_processing", "purchased"}

\* the statuses the switch of getReports adds to rejectedRequests
rejectedStatuses == {"manager_rejected", "cancelled"}

RECURSIVE sumCounts(_)
\* the running `+=` of the loop over the status groups
sumCounts(statuses) ==
    IF statuses = {} THEN 0
    ELSE LET s == CHOOSE s \in statuses : TRUE
         IN  statusCount(s) + sumCounts(statuses \ {s})

\* The join rows of the top-categories query: a (request, line) pair for each
\* request_items row that joins its request, its item and the item's category.
categoryJoinRows(category) ==
    {k \in 1..Len(request_items) :
        /\ request_items[k].request_id \in DOMAIN requests
        /\ joinsItemAndCategory(request_items[k])
        /\ items[request_items[k].item_id].category_id = category}

RECURSIVE sumActualCost(_)
\* coalesce(sum(requests.actual_cost), 0) over join rows: NULL costs are
\* skipped, every join row of a request adds that request's cost
sumActualCost(rows) ==
    IF rows = {} THEN 0
    ELSE LET k == CHOOSE k \in rows : TRUE
             cost == requests[request_items[k].request_id].actual_cost
         IN  (IF cost = Null THEN 0 ELSE cost[1]) + sumActualCost(rows \ {k})

\* one group of the top-categories query
categoryGroup(category) ==
    [category |-> category,
     requestCount |-> Cardinality({request_items[k].request_id :
                                      k \in categoryJoinRows(category)}),
     totalAmount |-> sumActualCost(categoryJoinRows(category))]

\* LIMIT of the top-categories query
TopCategoriesLimit == 5

RECURSIVE orderByRequestCountDesc(_)
\* ORDER BY count(distinct requests.id) DESC; groups of equal count are listed
\* by category id
orderByRequestCountDesc(groups) ==
    IF groups = {} THEN <<>>
    ELSE LET first == CHOOSE g \in groups :
                         \A h \in groups :
                             \/ h.requestCount < g.requestCount
                             \/ /\ h.requestCount = g.requestCount
                                /\ g.category <= h.category
         IN  <<first>> \o orderByRequestCountDesc(groups \ {first})

\* the topCategories of getReports
topCategories ==
    LET groups == {categoryGroup(c) :
                      c \in {c \in DOMAIN categoriesTable : categoryJoinRows(c) # {}}}
        ordered == orderByRequestCountDesc(groups)
    IN  SubSeq(ordered, 1, IF Len(ordered) < TopCategoriesLimit
                           THEN Len(ordered) ELSE TopCategoriesLimit)

\* getReports, without its spending, processing-time and monthly figures
getReports ==
    LET present == {requests[r].status : r \in DOMAIN requests}
    IN  [totalRequests |-> sumCounts(present),
         pendingRequests |-> statusCount("pending"),
         approvedRequests |-> sumCounts(present \cap approvedStatuses),
         rejectedRequests |-> sumCounts(present \cap rejectedStatuses),
         completedRequests |-> statusCount("received"),
         topCategories |-> topCategories]

-----------------------------------------------------------------------------
\* Calls the clients make

\* payload of an admin call that supplies none of the optional fields
emptyPayload ==
    [notes |-> Undefined, actual_cost |-> Undefined,
     purchase_date |-> Undefined, received_date |-> Undefined]

AdminInput(rid, uid, action, p) ==
    [request_id |-> rid, admin_id |-> uid, action |-> action,
     notes |-> p.notes, actual_cost |-> p.actual_cost,
     purchase_date |-> p.purchase_date, received_date |-> p.received_date]

\* one line of item 1 (priced, active)
oneLine == <<[item_id |-> 1, quantity |-> 2, notes |-> Undefined]>>

\* Calls made concurrently: an active staff member files requests, the active
\* manager (user 2) decides and the active super admin (user 1) processes.
ConcCreateInputs ==
    [staff_id : {3}, title : {"t"}, justification : {Undefined},
     items : {oneLine}]

ConcManagerInputs ==
    [request_id : RequestIds, manager_id : {2}, action : ManagerActions,
     notes : {Undefined}]

ConcAdminInputs ==
    {AdminInput(rid, 1, action, emptyPayload) :
        rid \in RequestIds, action \in AdminActions}

\* Calls made one at a time: any user id as the acting user
SeqCreateInputs ==
    [staff_id : {3, 5, NoUser}, title : {"t"}, justification : {Undefined},
     items : {oneLine,
              <<[item_id |-> 3, quantity |-> 1, notes |-> Undefined]>>}]

SeqManagerInputs ==
    [request_id : RequestIds, manager_id : UserIds, action : ManagerActions,
     notes : {Given(Some("m"))}]

SeqAdminInputs ==
    {AdminInput(rid, uid, action, p) :
        rid \in RequestIds, uid \in UserIds, action \in AdminActions,
        p \in {emptyPayload}}

CreateInput(staff, reqItems) ==
    [staff_id |-> staff, title |-> "t", justification |-> Undefined,
     items |-> reqItems]

Line(item, quantity) ==
    [item_id |-> item, quantity |-> quantity, notes |-> Undefined]

\* two priced items
twoLines == <<Line(1, 2), Line(4, 1)>>

\* a priced item and the item without a price
mixedLines == <<Line(1, 2), Line(2, 1)>>

\* the same item in two entries
duplicateLines == <<Line(1, 1), Line(1, 1)>>

UpdateItemInput(id, category, price, active) ==
    [id |-> id, category_id |-> category, estimated_price |-> price,
     is_active |-> active]

\* Catalog maintenance and request creation, one call at a time: the staff
\* member files requests of every shape while the price, the activity and the
\* category of item 1 are edited.  Prices are given in thousandths.
CatCreateInputs ==
    {CreateInput(3, l) :
        l \in {oneLine, twoLines, mixedLines, duplicateLines,
               <<Line(3, 1)>>, <<Line(1, 1), Line(NoItem, 1)>>}}
    \cup {CreateInput(5, oneLine), CreateInput(NoUser, oneLine)}

CatUpdateItemInputs ==
    {UpdateItemInput(1, Undefined, Given(Some(4)), Undefined),
     UpdateItemInput(1, Undefined, Given(Null), Undefined),
     UpdateItemInput(1, Undefined, Given(Some(5990)), Given(Some(TRUE))),
     UpdateItemInput(1, Undefined, Undefined, Given(Some(FALSE))),
     UpdateItemInput(1, Given(Some(1)), Undefined, Undefined),
     UpdateItemInput(1, Given(Some(2)), Given(Some(4)), Undefined),
     UpdateItemInput(NoItem, Undefined, Given(Null), Undefined)}

\* payloads of an admin call that supply every optional field, with values
\* and with nulls, and one that supplies the cost alone
valuePayload ==
    [notes |-> Given(Some("n")), actual_cost |-> Given(Some(8490)),
     purchase_date |-> Given(Some("d1")), received_date |-> Given(Some("d2"))]

nullPayload ==
    [notes |-> Given(Null), actual_cost |-> Given(Null),
     purchase_date |-> Given(Null), received_date |-> Given(Null)]

costPayload ==
    [notes |-> Undefined, actual_cost |-> Given(Some(8490)),
     purchase_date |-> Undefined, received_date |-> Undefined]

\* The life of a request, one call at a time, by the users entitled to act:
\* the admin calls carry every kind of payload, and the price of the
\* requested item changes meanwhile.
FrameCreateInputs == {CreateInput(3, oneLine)}

FrameManagerInputs ==
    [request_id : RequestIds, manager_id : {2}, action : ManagerActions,
     notes : {Undefined}]

FrameAdminInputs ==
    {AdminInput(rid, 1, action, p) :
        rid \in RequestIds, action \in AdminActions,
        p \in {emptyPayload, valuePayload, nullPayload, costPayload}}

FrameUpdateItemInputs ==
    {UpdateItemInput(1, Given(Some(1)), Given(Some(7000)), Undefined)}

\* The data the list handlers are asked about, built one call at a time:
\* requests of two users, with two lines or with one, decided by the manager
\* and taken up by the super admin.
ReadRequestIds == 1..MaxReadRequests

ReadCreateInputs == {CreateInput(3, twoLines), CreateInput(2, oneLine)}

ReadManagerInputs ==
    [request_id : ReadRequestIds, manager_id : {2}, action : ManagerActions,
     notes : {Undefined}]

ReadAdminInputs ==
    {AdminInput(rid, 1, "start_processing", emptyPayload) : rid \in ReadRequestIds}

\* The filters getRequests is asked with: each field absent or supplied; the
\* ids are those of the staff member, of the manager, and 0, which z.number()
\* accepts; the dates are ticks.
ReadFilters ==
    [status : {Undefined, Given(Some("pending")), Given(Some("manager_approved"))},
     staff_id : {Undefined, Given(Some(3)), Given(Some(0))},
     manager_id : {Undefined, Given(Some(2)), Given(Some(0))},
     date_from : {Undefined, Given(Some(2))},
     date_to : {Undefined, Given(Some(1)), Given(Some(2))}]

\* the filter that supplies nothing
emptyFilter ==
    [status |-> Undefined, staff_id |-> Undefined, manager_id |-> Undefined,
     date_from |-> Undefined, date_to |-> Undefined]

\* The data the reports are computed from: requests with two lines of one
\* category, taken through the whole lifecycle, the purchase with its cost.
ReportCreateInputs == {CreateInput(3, twoLines)}

ReportAdminInputs ==
    {AdminInput(rid, 1, action,
                IF action = "mark_purchased" THEN costPayload ELSE emptyPayload) :
        rid \in ReadRequestIds, action \in AdminActions}

-----------------------------------------------------------------------------
\* Specifications

Init ==
    /\ users = usersTable
    /\ items = itemsTable
    /\ requests = <<>>
    /\ request_items = <<>>
    /\ calls = [c \in 1..MaxCalls |-> idle]
    /\ last = noCall
    /\ mgrWrites = [r \in 1..MaxRequests |-> 0]
    /\ trail = <<>>

\* an arriving call takes the first free slot
firstFree(c) == \A d \in DOMAIN calls : d < c => calls[d].op # "idle"

\* no call is in flight
allIdle == \A c \in DOMAIN calls : calls[c].op = "idle"

\* a call in flight performs its next round trip
Continue(c) ==
    \/ CreateReadItems(c)
    \/ CreateInsertRequest(c)
    \/ CreateInsertItems(c)
    \/ ManagerReadManager(c)
    \/ ManagerUpdate(c)
    \/ AdminReadRequest(c)
    \/ AdminUpdate(c)

\* Concurrent calls: a call may arrive while others are in flight, and the
\* round trips of the calls in flight interleave in any order.
Next ==
    \/ \E c \in DOMAIN calls, input \in ConcCreateInputs :
          firstFree(c) /\ CreateBegin(c, input)
    \/ \E c \in DOMAIN calls, input \in ConcManagerInputs :
          firstFree(c) /\ ManagerBegin(c, input)
    \/ \E c \in DOMAIN calls, input \in ConcAdminInputs :
          firstFree(c) /\ AdminBegin(c, input)
    \/ \E c \in DOMAIN calls : Continue(c)

Spec == Init /\ [][Next]_vars

\* Sequential calls: a call arrives only when no other call is in flight.
SeqNext ==
    \/ \E input \in SeqCreateInputs : allIdle /\ CreateBegin(1, input)
    \/ \E input \in SeqManagerInputs : allIdle /\ ManagerBegin(1, input)
    \/ \E input \in SeqAdminInputs : allIdle /\ AdminBegin(1, input)
    \/ Continue(1)

SeqSpec == Init /\ [][SeqNext]_vars

\* the same start with the status history of every request kept
TrailInit ==
    /\ users = usersTable
    /\ items = itemsTable
    /\ requests = <<>>
    /\ request_items = <<>>
    /\ calls = [c \in 1..MaxCalls |-> idle]
    /\ last = noCall
    /\ mgrWrites = [r \in 1..MaxRequests |-> 0]
    /\ trail = [r \in 1..MaxRequests |-> <<>>]

\* Sequential calls with the status history kept.
TrailSpec == TrailInit /\ [][SeqNext]_vars

\* Catalog maintenance and request creation, one call at a time; an INSERT of
\* createRequest may be rejected.
CatalogNext ==
    \/ \E input \in CatCreateInputs : allIdle /\ CreateBegin(1, input)
    \/ \E input \in CatUpdateItemInputs : allIdle /\ UpdateItemBegin(1, input)
    \/ CreateReadItems(1)
    \/ CreateInsertRequest(1)
    \/ CreateInsertItems(1)
    \/ CreateStatementFails(1)
    \/ UpdateItemCheckCategory(1)
    \/ UpdateItemUpdate(1)

CatalogSpec == Init /\ [][CatalogNext]_vars

\* The life of a request, one call at a time, with every kind of admin payload
\* and a price change.
FrameNext ==
    \/ \E input \in FrameCreateInputs : allIdle /\ CreateBegin(1, input)
    \/ \E input \in FrameManagerInputs : allIdle /\ ManagerBegin(1, input)
    \/ \E input \in FrameAdminInputs : allIdle /\ AdminBegin(1, input)
    \/ \E input \in FrameUpdateItemInputs : allIdle /\ UpdateItemBegin(1, input)
    \/ Continue(1)
    \/ UpdateItemCheckCategory(1)
    \/ UpdateItemUpdate(1)

FrameSpec == Init /\ [][FrameNext]_vars

\* the same start with room for the requests the read handlers are asked about
ReadInit ==
    /\ users = usersTable
    /\ items = itemsTable
    /\ requests = <<>>
    /\ request_items = <<>>
    /\ calls = [c \in 1..MaxCalls |-> idle]
    /\ last = noCall
    /\ mgrWrites = [r \in ReadRequestIds |-> 0]
    /\ trail = <<>>

\* Calls that write, one at a time; an INSERT of createRequest may be
\* rejected.  The read handlers are evaluated in every state.
ReadNext ==
    \/ \E input \in ReadCreateInputs : allIdle /\ CreateBegin(1, input)
    \/ \E input \in ReadManagerInputs : allIdle /\ ManagerBegin(1, input)
    \/ \E input \in ReadAdminInputs : allIdle /\ AdminBegin(1, input)
    \/ Continue(1)
    \/ CreateStatementFails(1)

ReadSpec == ReadInit /\ [][ReadNext]_vars

\* Calls that write, one at a time, through the whole lifecycle.  The reports
\* are evaluated in every state.
ReportNext ==
    \/ \E input \in ReportCreateInputs : allIdle /\ CreateBegin(1, input)
    \/ \E input \in ReadManagerInputs : allIdle /\ ManagerBegin(1, input)
    \/ \E input \in ReportAdminInputs : allIdle /\ AdminBegin(1, input)
    \/ Continue(1)

ReportSpec == ReadInit /\ [][ReportNext]_vars

-----------------------------------------------------------------------------
\* The lifecycle as the specification states it

\* the admin transition table: <<from, action, to>>
TransitionTable ==
    {<<"manager_approved", "start_processing", "admin_processing">>,
     <<"manager_approved", "cancel",           "cancelled">>,
     <<"admin_processing", "mark_purchased",   "purchased">>,
     <<"admin_processing", "cancel",           "cancelled">>,
     <<"purchased",        "mark_received",    "received">>,
     <<"purchased",        "cancel",           "cancelled">>}

\* the manager decision: <<from, to>>
ManagerDecisions ==
    {<<"pending", "manager_approved">>, <<"pending", "manager_rejected">>}

\* statuses without outgoing transitions
Absorbing == {"received", "cancelled", "manager_rejected"}

-----------------------------------------------------------------------------
\* The manager gate (SeqSpec; also an invariant of Spec) and concurrent calls
\* (Spec)

\* C2: a manager action is accepted only against a request it read as pending,
\* and a request for which a manager action has been accepted is never pending
\* again, whatever manager and admin calls follow.  (Stated over every slot, so
\* it reads the same for calls made one at a time and for concurrent calls.)
C2_ManagerGate ==
    /\ \A c \in DOMAIN calls :
          calls[c].op = "manager" => calls[c].seen = "pending"
    /\ (last.op = "manager" /\ last.ok) => last.seen = "pending"
    /\ \A r \in DOMAIN mgrWrites :
          mgrWrites[r] > 0 => (r \in DOMAIN requests /\ requests[r].status # "pending")

\* a request the manager approved has since been taken to purchased by admin calls
C2_Witness ==
    /\ mgrWrites[1] > 0
    /\ 1 \in DOMAIN requests
    /\ requests[1].status = "purchased"
    /\ last.op = "manager" /\ ~last.ok /\ last.seen = "purchased"

\* C3: received, cancelled and manager_rejected are absorbing: once a request
\* has one of these statuses its status never changes again.
C3_Absorbing ==
    [][\A r \in DOMAIN requests :
          requests[r].status \in Absorbing
              => requests'[r].status = requests[r].status]_vars

\* C4: every status change an adminProcessRequest call persists goes from the
\* status stored immediately before its write to a status the transition
\* table allows from it; received and cancelled are never overwritten.
C4_AtomicTransitions ==
    [][\A c \in DOMAIN calls :
          (calls[c].op = "admin" /\ calls[c].pc = "update" /\ calls'[c].op = "idle")
              => LET r == calls[c].input.request_id
                 IN  requests'[r].status # requests[r].status
                        => \E t \in TransitionTable :
                              /\ t[1] = requests[r].status
                              /\ t[3] = requests'[r].status]_vars

\* C5: manager_id and manager_notes of a request are written by at most one
\* successful managerActionOnRequest call: two calls on the same request
\* cannot both succeed.
C5_ManagerWritesOnce ==
    \A r \in DOMAIN mgrWrites : mgrWrites[r] <= 1

-----------------------------------------------------------------------------
\* Calls made one at a time (SeqSpec)

\* this step completes a call of the given operation
seqComplete(op) ==
    /\ calls'[1].op = "idle"
    /\ last'.op = op
    /\ \/ calls[1].op = op
       \/ calls[1].op = "idle" /\ last' # last

\* this step is taken by an adminProcessRequest call
adminStep ==
    \/ calls[1].op = "admin"
    \/ calls'[1].op = "admin"
    \/ calls[1].op = "idle" /\ calls'[1].op = "idle" /\ last' # last /\ last'.op = "admin"

\* the input of that call
adminStepInput ==
    IF calls[1].op = "admin" THEN calls[1].input
    ELSE IF calls'[1].op = "admin" THEN calls'[1].input
    ELSE last'.input

isSuperAdmin(id) == id \in DOMAIN users /\ users[id].role = "super_admin"

isActiveManager(id) ==
    id \in DOMAIN users /\ users[id].role = "manager" /\ users[id].is_active

\* C1: adminProcessRequest by an existing super_admin on an existing request
\* succeeds iff (current status, action) is an entry of the transition table;
\* on success the new status is the entry's target, and every other pair
\* fails with InvalidState.
C1_AdminTransitions ==
    [][(/\ seqComplete("admin")
        /\ isSuperAdmin(last'.input.admin_id)
        /\ last'.input.request_id \in DOMAIN requests)
          => LET r == last'.input.request_id
                 entries == {t \in TransitionTable :
                                /\ t[1] = requests[r].status
                                /\ t[2] = last'.input.action}
             IN  /\ last'.ok <=> entries # {}
                 /\ last'.ok => \A t \in entries : requests'[r].status = t[3]
                 /\ ~last'.ok => /\ last'.error.kind = "InvalidState"
                                 /\ requests' = requests]_vars

\* a purchased request has just been marked received
C1_Witness ==
    /\ last.op = "admin" /\ last.ok
    /\ last.seen = "purchased" /\ last.input.action = "mark_received"
    /\ requests[last.input.request_id].status = "received"

\* C6: the admin action cancel succeeds exactly when the current status is
\* manager_approved, admin_processing or purchased, and then sets the status
\* to cancelled; from every other status it fails.
C6_CancelReachability ==
    [][(/\ seqComplete("admin")
        /\ last'.input.action = "cancel"
        /\ isSuperAdmin(last'.input.admin_id)
        /\ last'.input.request_id \in DOMAIN requests)
          => LET r == last'.input.request_id
             IN  /\ last'.ok <=> requests[r].status \in
                        {"manager_approved", "admin_processing", "purchased"}
                 /\ last'.ok => requests'[r].status = "cancelled"
                 /\ ~last'.ok => requests'[r].status = requests[r].status]_vars

\* a request in admin_processing has just been cancelled
C6_Witness ==
    /\ last.op = "admin" /\ last.ok
    /\ last.input.action = "cancel" /\ last.seen = "admin_processing"
    /\ requests[last.input.request_id].status = "cancelled"

\* C7: mark_purchased on a request whose status is manager_approved fails with
\* an InvalidState error naming mark_purchased and manager_approved, and the
\* status stays manager_approved.
C7_PurchaseBeforeProcessing ==
    [][(/\ seqComplete("admin")
        /\ last'.input.action = "mark_purchased"
        /\ isSuperAdmin(last'.input.admin_id)
        /\ last'.input.request_id \in DOMAIN requests
        /\ requests[last'.input.request_id].status = "manager_approved")
          => /\ ~last'.ok
             /\ last'.error.kind = "InvalidState"
             /\ last'.error.action = "mark_purchased"
             /\ last'.error.status = "manager_approved"
             /\ requests'[last'.input.request_id].status = "manager_approved"]_vars

\* such a call has just failed
C7_Witness ==
    /\ last.op = "admin" /\ ~last.ok
    /\ last.input.action = "mark_purchased"
    /\ last.error.action = "mark_purchased"
    /\ last.error.status = "manager_approved"
    /\ requests[last.input.request_id].status = "manager_approved"

\* C8: adminProcessRequest fails with Forbidden, and changes no request,
\* whenever admin_id resolves to no user or to a user whose role is not
\* super_admin, for every action and every request status.
C8_AdminForbidden ==
    [][(adminStep /\ ~isSuperAdmin(adminStepInput.admin_id))
          => /\ calls'[1].op = "idle"
             /\ last'.op = "admin"
             /\ ~last'.ok
             /\ last'.error.kind = "Forbidden"
             /\ requests' = requests
             /\ request_items' = request_items]_vars

\* a manager has just been refused an action the request's status allows
C8_Witness ==
    /\ last.op = "admin" /\ ~last.ok /\ last.error.kind = "Forbidden"
    /\ last.input.admin_id = 2
    /\ last.input.action = "start_processing"
    /\ last.input.request_id \in DOMAIN requests
    /\ requests[last.input.request_id].status = "manager_approved"

\* C9: adminProcessRequest called with the id of a super_admin whose is_active
\* is false fails.
C9_InactiveAdminRejected ==
    (/\ last.op = "admin"
     /\ last.input.admin_id \in DOMAIN users
     /\ ~users[last.input.admin_id].is_active)
        => ~last.ok

\* C10: managerActionOnRequest on a pending request succeeds only if
\* manager_id resolves to an active user with role manager; otherwise it fails
\* with Forbidden and the request stays pending with manager_id and
\* manager_notes null.
C10_ManagerForbidden ==
    [][(/\ seqComplete("manager")
        /\ last'.input.request_id \in DOMAIN requests
        /\ requests[last'.input.request_id].status = "pending")
          => LET r == last'.input.request_id
                 valid == isActiveManager(last'.input.manager_id)
             IN  /\ last'.ok => valid
                 /\ ~valid => /\ ~last'.ok
                              /\ last'.error.kind = "Forbidden"
                              /\ requests'[r].status = "pending"
                              /\ requests'[r].manager_id = Null
                              /\ requests'[r].manager_notes = Null
                              /\ requests' = requests]_vars

\* an inactive manager has just been refused on a pending request
C10_Witness ==
    /\ last.op = "manager" /\ ~last.ok /\ last.error.kind = "Forbidden"
    /\ last.input.manager_id = 5
    /\ requests[last.input.request_id].status = "pending"
    /\ requests[last.input.request_id].manager_id = Null

-----------------------------------------------------------------------------
\* Request creation and the catalog (CatalogSpec)

\* this step is taken by a call of the given operation
opStep(op) ==
    \/ calls[1].op = op
    \/ calls'[1].op = op
    \/ calls[1].op = "idle" /\ calls'[1].op = "idle" /\ last' # last /\ last'.op = op

\* the input of that call
opStepInput(op) ==
    IF calls[1].op = op THEN calls[1].input
    ELSE IF calls'[1].op = op THEN calls'[1].input
    ELSE last'.input

\* the rows of request_items that belong to request r
linesOf(r) == {i \in DOMAIN request_items : request_items[i].request_id = r}

RECURSIVE lineSum(_, _)
\* estimated_unit_cost x quantity summed over the lines of request r among the
\* first i rows of request_items
lineSum(r, i) ==
    IF i = 0 THEN 0
    ELSE lineSum(r, i - 1)
         + (IF request_items[i].request_id = r
            THEN request_items[i].estimated_unit_cost[1] * request_items[i].quantity
            ELSE 0)

\* C11: for every request created by createRequest, total_estimated_cost is
\* null if one of its line items has a null estimated_unit_cost, and otherwise
\* is non-null and equals the sum over its line items of estimated_unit_cost x
\* quantity, a sum of 0 included.
C11_TotalMatchesLines ==
    \A r \in DOMAIN requests :
        linesOf(r) # {}
            => IF \E i \in linesOf(r) : request_items[i].estimated_unit_cost = Null
               THEN requests[r].total_estimated_cost = Null
               ELSE requests[r].total_estimated_cost
                        = Some(lineSum(r, Len(request_items)))

\* C12: a createRequest call that fails at any step, a failure of the
\* line-item insert after the request row was inserted included, leaves no
\* request row and no line-item row of that attempt in storage.
C12_FailedCreateLeavesNothing ==
    [][(seqComplete("create") /\ ~last'.ok)
          => /\ requests' = requests
             /\ request_items' = request_items
             /\ ~(/\ calls[1].op = "create"
                  /\ calls[1].pc = "insertItems"
                  /\ calls[1].data.request_id \in DOMAIN requests')]_vars

\* C13: every persisted request has at least one line item (stated for the
\* states in which no call is in flight).
C13_AtLeastOneLine ==
    allIdle => \A r \in DOMAIN requests : linesOf(r) # {}

\* C14: the estimated_unit_cost of each line item a createRequest call inserts
\* is the item's estimated_price at that call, and no step of an updateItem
\* call changes a line item or a request.
C14_PriceSnapshot ==
    [][/\ (seqComplete("create") /\ last'.ok)
            => \A i \in DOMAIN request_items' \ DOMAIN request_items :
                  request_items'[i].estimated_unit_cost
                      = items[request_items'[i].item_id].estimated_price
       /\ opStep("updateItem")
            => /\ request_items' = request_items
               /\ requests' = requests]_vars

\* the price of item 1 has just been changed to 0.00 while a line of an
\* earlier request still carries 5.99 and its request the total 11.98
C14_Witness ==
    /\ last.op = "updateItem" /\ last.ok
    /\ items[1].estimated_price = Some(0)
    /\ \E i \in DOMAIN request_items :
          /\ request_items[i].item_id = 1
          /\ request_items[i].estimated_unit_cost = Some(599)
          /\ requests[request_items[i].request_id].total_estimated_cost = Some(1198)

\* the distinct item ids a create input names
distinctItemIds(input) == {input.items[i].item_id : i \in DOMAIN input.items}

isActiveUser(id) == id \in DOMAIN users /\ users[id].is_active

isActiveItem(id) == id \in DOMAIN items /\ items[id].is_active

\* C15: createRequest by an active staff user fails on its items exactly when
\* the number of active items found differs from the number of distinct
\* requested item ids, and a successful call inserts one line item per entry.
C15_ItemsValidatedAsSet ==
    [][(seqComplete("create") /\ isActiveUser(last'.input.staff_id))
          => /\ (~last'.ok /\ last'.error.kind = "NotFound")
                   <=> Cardinality({id \in distinctItemIds(last'.input) :
                                       isActiveItem(id)})
                           # Cardinality(distinctItemIds(last'.input))
             /\ last'.ok => Len(request_items')
                               = Len(request_items) + Len(last'.input.items)]_vars

\* the staff id or one of the item ids of a create input does not resolve to
\* an existing active row
invalidCreate(input) ==
    \/ ~isActiveUser(input.staff_id)
    \/ \E i \in DOMAIN input.items : ~isActiveItem(input.items[i].item_id)

\* C16: createRequest fails, and persists neither a request nor a line item,
\* whenever staff_id does not resolve to an existing active user or a
\* requested item_id does not resolve to an existing active item.
C16_InvalidCreateRejected ==
    [][(opStep("create") /\ invalidCreate(opStepInput("create")))
          => /\ requests' = requests
             /\ request_items' = request_items
             /\ calls'[1].pc \notin {"insertRequest", "insertItems"}
             /\ calls'[1].op = "idle" => (last'.op = "create" /\ ~last'.ok)]_vars

\* a request of the active staff member naming item 1 has just been refused,
\* the item having been deactivated, and nothing is stored
C16_Witness ==
    /\ last.op = "create" /\ ~last.ok /\ last.error.kind = "NotFound"
    /\ last.input.staff_id = 3 /\ last.input.items = oneLine
    /\ ~items[1].is_active
    /\ requests = <<>> /\ request_items = <<>>

-----------------------------------------------------------------------------
\* Admin payloads and what the lifecycle leaves alone (FrameSpec)

\* what a payload field leaves in its column
fieldAfter(f, old) == IF f.given THEN f.val ELSE old

\* C17: a successful adminProcessRequest sets admin_id to the acting admin and
\* overwrites each of admin_notes, actual_cost, purchase_date and
\* received_date only if the payload carries the field: an absent field keeps
\* its value and a field supplied as null is cleared.
C17_PartialUpdate ==
    [][(seqComplete("admin") /\ last'.ok)
          => LET r == last'.input.request_id
                 i == last'.input
             IN  /\ requests'[r].admin_id = Some(i.admin_id)
                 /\ requests'[r].admin_notes
                        = fieldAfter(i.notes, requests[r].admin_notes)
                 /\ requests'[r].actual_cost
                        = fieldAfter(i.actual_cost, requests[r].actual_cost)
                 /\ requests'[r].purchase_date
                        = fieldAfter(i.purchase_date, requests[r].purchase_date)
                 /\ requests'[r].received_date
                        = fieldAfter(i.received_date, requests[r].received_date)]_vars

\* a request has just been marked received without actual_cost in the payload
\* and still carries the actual_cost an earlier call stored
C17_Witness ==
    /\ last.op = "admin" /\ last.ok
    /\ last.input.action = "mark_received"
    /\ ~last.input.actual_cost.given
    /\ requests[last.input.request_id].status = "received"
    /\ requests[last.input.request_id].actual_cost = Some(8490)

\* C18: adminProcessRequest writes actual_cost and purchase_date only on
\* mark_purchased and received_date only on mark_received: a successful
\* start_processing or cancel leaves the three columns unchanged whatever the
\* payload supplies.
C18_FieldsOnlyOnTheirAction ==
    [][(seqComplete("admin") /\ last'.ok)
          => LET r == last'.input.request_id
                 action == last'.input.action
             IN  /\ action # "mark_purchased"
                      => /\ requests'[r].actual_cost = requests[r].actual_cost
                         /\ requests'[r].purchase_date = requests[r].purchase_date
                 /\ action # "mark_received"
                      => requests'[r].received_date = requests[r].received_date]_vars

\* C20: no operation removes a request, none changes its staff_id, title,
\* justification or total_estimated_cost, no line item is ever removed or
\* modified, no step of a manager action, an admin action or a catalog update
\* adds one, and actual_unit_cost is never set.
C20_RequestsAndLinesKept ==
    [][/\ Len(requests') >= Len(requests)
       /\ \A r \in DOMAIN requests :
             /\ requests'[r].staff_id = requests[r].staff_id
             /\ requests'[r].title = requests[r].title
             /\ requests'[r].justification = requests[r].justification
             /\ requests'[r].total_estimated_cost = requests[r].total_estimated_cost
       /\ \A i \in DOMAIN request_items :
             i \in DOMAIN request_items' /\ request_items'[i] = request_items[i]
       /\ (opStep("manager") \/ opStep("admin") \/ opStep("updateItem"))
             => request_items' = request_items
       /\ \A i \in DOMAIN request_items' :
             request_items'[i].actual_unit_cost = Null]_vars

\* a request filed at 5.99 a piece has been approved, processed, purchased
\* and received while the price of the item went to 7.00
C20_Witness ==
    /\ Len(requests) >= 1
    /\ requests[1].status = "received"
    /\ requests[1].total_estimated_cost = Some(1198)
    /\ items[1].estimated_price = Some(700)
    /\ \E i \in DOMAIN request_items :
          /\ request_items[i].request_id = 1
          /\ request_items[i].estimated_unit_cost = Some(599)

-----------------------------------------------------------------------------
\* Failed lifecycle calls (SeqSpec)

\* this step completes a manager or an admin call
lifecycleComplete == seqComplete("manager") \/ seqComplete("admin")

\* C19: a managerActionOnRequest or adminProcessRequest call that fails with
\* NotFound, Forbidden or InvalidState changes no request and no line item at
\* any of its steps, and the same call made again after an InvalidState
\* failure, the status of the request being what it was, fails the same way.
C19_FailedCallsChangeNothing ==
    [][/\ (/\ lifecycleComplete
           /\ ~last'.ok
           /\ last'.error.kind \in {"NotFound", "Forbidden", "InvalidState"})
            => /\ requests' = requests
               /\ request_items' = request_items
       /\ ((opStep("manager") \/ opStep("admin")) /\ requests' # requests)
            => (calls'[1].op = "idle" /\ last'.ok)
       /\ (/\ lifecycleComplete
           /\ ~last.ok
           /\ last.error.kind = "InvalidState"
           /\ last'.op = last.op
           /\ last'.input = last.input
           /\ requests[last.input.request_id].status = last.error.status)
            => /\ ~last'.ok
               /\ last'.error = last.error
               /\ requests' = requests]_vars

\* mark_received has just been refused on a request in admin_processing,
\* which is as the call found it
C19_Witness ==
    /\ last.op = "admin" /\ ~last.ok /\ last.error.kind = "InvalidState"
    /\ last.input.action = "mark_received"
    /\ last.error.status = "admin_processing"
    /\ requests[last.input.request_id].status = "admin_processing"
    /\ requests[last.input.request_id].received_date = Null

-----------------------------------------------------------------------------
\* The order of the lifecycle (TrailSpec)

\* the statuses a received request has held
FullTrail ==
    <<"pending", "manager_approved", "admin_processing", "purchased", "received">>

\* C27: in sequential executions a request whose status is received has held
\* pending, manager_approved, admin_processing and purchased, in that order,
\* and no request is in admin_processing, purchased, received or cancelled
\* without an earlier successful manager approve.
C27_LifecycleOrder ==
    \A r \in DOMAIN requests :
        /\ trail[r] # <<>>
        /\ trail[r][1] = "pending"
        /\ trail[r][Len(trail[r])] = requests[r].status
        /\ requests[r].status = "received" => trail[r] = FullTrail
        /\ requests[r].status \in {"admin_processing", "purchased", "received",
                                   "cancelled"}
              => /\ Len(trail[r]) >= 3
                 /\ trail[r][2] = "manager_approved"
                 /\ mgrWrites[r] = 1
                 /\ requests[r].manager_id # Null

\* a request has been received
C27_Witness ==
    /\ 1 \in DOMAIN requests
    /\ requests[1].status = "received"
    /\ trail[1] = FullTrail

\* C29: in sequential executions no request returns to a status it has left,
\* a request undergoes at most four successful status transitions, one manager
\* decision followed by at most three admin actions, and after the fourth
\* every manager or admin call on it fails.
C29_Acyclic ==
    [][/\ \A r \in DOMAIN requests' :
             /\ \A i, j \in DOMAIN trail'[r] : i # j => trail'[r][i] # trail'[r][j]
             /\ Len(trail'[r]) <= 5
             /\ mgrWrites'[r] <= 1
             /\ Len(trail'[r]) > 2 => trail'[r][2] \in {"manager_approved",
                                                        "manager_rejected"}
             /\ \A i \in DOMAIN trail'[r] :
                   i > 2 => trail'[r][i] \in {"admin_processing", "purchased",
                                              "received", "cancelled"}
       /\ (/\ lifecycleComplete
           /\ last'.input.request_id \in DOMAIN requests
           /\ Len(trail[last'.input.request_id]) = 5)
            => (~last'.ok /\ trail' = trail /\ requests' = requests)]_vars

\* after its four transitions a request has just been refused a cancel by
\* the super admin
C29_Witness ==
    /\ last.op = "admin" /\ ~last.ok /\ last.error.kind = "InvalidState"
    /\ last.input.admin_id = 1 /\ last.input.action = "cancel"
    /\ Len(trail[last.input.request_id]) = 5
    /\ mgrWrites[last.input.request_id] = 1

-----------------------------------------------------------------------------
\* Field invariants (Spec) and the precedence of errors (SeqSpec)

\* C28: status = pending implies manager_id, manager_notes, admin_id,
\* admin_notes, actual_cost, purchase_date and received_date are null; any
\* other status implies manager_id is non-null; admin_processing, purchased,
\* received and cancelled imply admin_id is non-null; manager_approved and
\* manager_rejected imply admin_id is null.
C28_FieldsFollowStatus ==
    \A r \in DOMAIN requests :
        LET q == requests[r]
        IN  /\ q.status = "pending"
                 => /\ q.manager_id = Null /\ q.manager_notes = Null
                    /\ q.admin_id = Null /\ q.admin_notes = Null
                    /\ q.actual_cost = Null /\ q.purchase_date = Null
                    /\ q.received_date = Null
            /\ q.status # "pending" => q.manager_id # Null
            /\ q.status \in {"admin_processing", "purchased", "received", "cancelled"}
                 => q.admin_id # Null
            /\ q.status \in {"manager_approved", "manager_rejected"}
                 => q.admin_id = Null

\* C30: adminProcessRequest reports Forbidden for an unknown or
\* non-super_admin admin_id whether or not the request exists, and NotFound
\* only to a super_admin; managerActionOnRequest reports NotFound for a
\* missing request, InvalidState for a request that is not pending, and
\* Forbidden for an invalid manager only when the request exists and is
\* pending.
C30_ErrorPrecedence ==
    [][/\ seqComplete("admin")
            => LET i == last'.input
               IN  /\ ~isSuperAdmin(i.admin_id)
                        => (~last'.ok /\ last'.error.kind = "Forbidden")
                   /\ (isSuperAdmin(i.admin_id) /\ i.request_id \notin DOMAIN requests)
                        => (~last'.ok /\ last'.error.kind = "NotFound")
                   /\ (~last'.ok /\ last'.error.kind = "NotFound")
                        => (isSuperAdmin(i.admin_id)
                            /\ i.request_id \notin DOMAIN requests)
       /\ seqComplete("manager")
            => LET i == last'.input
               IN  /\ i.request_id \notin DOMAIN requests
                        => (~last'.ok /\ last'.error.kind = "NotFound")
                   /\ (i.request_id \in DOMAIN requests
                       /\ requests[i.request_id].status # "pending")
                        => (~last'.ok /\ last'.error.kind = "InvalidState")
                   /\ (~last'.ok /\ last'.error.kind = "Forbidden")
                        => /\ i.request_id \in DOMAIN requests
                           /\ requests[i.request_id].status = "pending"
                           /\ ~isActiveManager(i.manager_id)]_vars

\* a manager calling adminProcessRequest on a request that does not exist has
\* just been refused as Forbidden
C30_Witness ==
    /\ last.op = "admin" /\ ~last.ok /\ last.error.kind = "Forbidden"
    /\ last.input.admin_id = 2
    /\ last.input.request_id \notin DOMAIN requests

-----------------------------------------------------------------------------
\* What the read handlers return

\* the ids of a sequence of returned requests
idsOf(rows) == {rows[k].id : k \in 1..Len(rows)}

\* each request at most once, the newest first
newestFirst(rows) ==
    \A j, k \in 1..Len(rows) :
        j < k => requests[rows[j].id].created_at > requests[rows[k].id].created_at

\* C21: getStaffRequests fails with a not-found error for an id that is no
\* user; for a user it succeeds with exactly the requests whose staff_id is
\* that id, each once, the newest first, which is the empty list for a user
\* without requests.
C21_StaffRequests ==
    \A u \in UserIds :
        LET result == getStaffRequests(u)
            mine == {r \in 1..Len(requests) : requests[r].staff_id = u}
        IN  IF u \notin DOMAIN usersTable
            THEN ~result.ok /\ result.kind = "NotFound"
            ELSE /\ result.ok
                 /\ idsOf(result.rows) = mine
                 /\ Len(result.rows) = Cardinality(mine)
                 /\ newestFirst(result.rows)
                 /\ mine = {} => result.rows = <<>>

\* two requests of user 3, none of user 1, and an id that is no user
C21_Witness ==
    /\ Len(requests) = 2
    /\ requests[1].staff_id = 3
    /\ requests[2].staff_id = 3
    /\ getStaffRequests(3).rows[1].id = 2
    /\ getStaffRequests(3).rows[2].id = 1
    /\ getStaffRequests(1).ok
    /\ getStaffRequests(1).rows = <<>>
    /\ ~getStaffRequests(NoUser).ok

\* the number of request_items rows of a request
lineCount(r) == Cardinality(linesOf(r))

\* C22: in every state the operations lead to, getPendingRequestsForManager
\* returns exactly the requests whose status is pending, each once, the newest
\* first, each with a null manager and a null admin.
C22_PendingList ==
    LET rows == getPendingRequestsForManager
        pending == {r \in 1..Len(requests) : requests[r].status = "pending"}
    IN  /\ idsOf(rows) = pending
        /\ Len(rows) = Cardinality(pending)
        /\ newestFirst(rows)
        /\ \A k \in 1..Len(rows) : rows[k].manager = Null /\ rows[k].admin = Null

\* two pending requests, the older one with two lines
C22_Witness ==
    /\ Len(requests) = 2
    /\ requests[1].status = "pending"
    /\ requests[2].status = "pending"
    /\ lineCount(1) = 2
    /\ Len(getPendingRequestsForManager) = 2
    /\ getPendingRequestsForManager[1].id = 2

\* does a request satisfy every predicate a filter supplies
satisfiesFilter(r, filter) ==
    /\ filter.status.given => requests[r].status = filter.status.val[1]
    /\ filter.staff_id.given => requests[r].staff_id = filter.staff_id.val[1]
    /\ filter.manager_id.given
          => requests[r].manager_id = Some(filter.manager_id.val[1])
    /\ filter.date_from.given => requests[r].created_at >= filter.date_from.val[1]
    /\ filter.date_to.given => requests[r].created_at <= filter.date_to.val[1]

\* C23: getRequests(filter) returns exactly the requests that satisfy every
\* predicate the filter supplies (status, staff_id and manager_id equal,
\* created_at from date_from to date_to inclusive), each once; a predicate that
\* is not supplied does not restrict, and the empty filter returns every
\* request.
C23_FilteredList ==
    \A filter \in ReadFilters :
        LET rows == getRequests(filter)
            matching == {r \in 1..Len(requests) : satisfiesFilter(r, filter)}
        IN  idsOf(rows) = matching /\ Len(rows) = Cardinality(matching)

\* a returned request carries the lines of request r, all of them, and a null
\* manager and admin when the request has none
carriesAll(view, r) ==
    /\ Len(view.items) = lineCount(r)
    /\ \A k \in 1..Len(view.items) : view.items[k].line.request_id = r
    /\ lineCount(r) = 0 => view.items = <<>>
    /\ requests[r].manager_id = Null => view.manager = Null
    /\ requests[r].admin_id = Null => view.admin = Null

\* request r is in a returned list exactly once, with its lines
listedOnce(rows, r) ==
    /\ Cardinality({k \in 1..Len(rows) : rows[k].id = r}) = 1
    /\ \A k \in 1..Len(rows) : rows[k].id = r => carriesAll(rows[k], r)

\* C24: getRequestById, getStaffRequests, getRequests and
\* getPendingRequestsForManager return each matching request exactly once,
\* whether it has no, one or several line items, with items [] when it has
\* none and with a null manager or admin when manager_id or admin_id is null.
C24_OncePerRequest ==
    \A r \in 1..Len(requests) :
        /\ getRequestById(r) # Null
        /\ getRequestById(r)[1].id = r
        /\ carriesAll(getRequestById(r)[1], r)
        /\ listedOnce(getStaffRequests(requests[r].staff_id).rows, r)
        /\ listedOnce(getRequests(emptyFilter), r)
        /\ requests[r].status = "pending"
              => listedOnce(getPendingRequestsForManager, r)

\* a pending request without lines and a request with two lines that has a
\* manager and an admin
C24_Witness ==
    /\ Len(requests) = 2
    /\ lineCount(1) = 0
    /\ requests[1].status = "pending"
    /\ getPendingRequestsForManager[1].items = <<>>
    /\ lineCount(2) = 2
    /\ requests[2].admin_id # Null
    /\ Len(getRequestById(2)[1].items) = 2
    /\ getRequestById(2)[1].admin # Null

-----------------------------------------------------------------------------
\* What the reports say

\* the number of requests whose status is one of a set
countIn(statuses) ==
    Cardinality({r \in 1..Len(requests) : requests[r].status \in statuses})

\* C25: getReports gives totalRequests as the number of requests,
\* pendingRequests as the number of pending ones, approvedRequests as the
\* number in manager_approved, admin_processing or purchased, rejectedRequests
\* as the number in manager_rejected or cancelled, and completedRequests as the
\* number of received ones; the four classes add up to the total, and all are
\* 0 when there is no request.
C25_ReportCounts ==
    LET report == getReports
    IN  /\ report.totalRequests = Len(requests)
        /\ report.pendingRequests = countIn({"pending"})
        /\ report.approvedRequests =
              countIn({"manager_approved", "admin_processing", "purchased"})
        /\ report.rejectedRequests = countIn({"manager_rejected", "cancelled"})
        /\ report.completedRequests = countIn({"received"})
        /\ report.totalRequests =
              report.pendingRequests + report.approvedRequests
              + report.rejectedRequests + report.completedRequests
        /\ requests = <<>>
              => /\ report.totalRequests = 0
                 /\ report.pendingRequests = 0
                 /\ report.approvedRequests = 0
                 /\ report.rejectedRequests = 0
                 /\ report.completedRequests = 0

\* a purchased request and a manager-approved one: two approved requests
C25_Witness ==
    /\ Len(requests) = 2
    /\ requests[1].status = "purchased"
    /\ requests[2].status = "manager_approved"
    /\ getReports.approvedRequests = 2
    /\ getReports.totalRequests = 2
    /\ getReports.pendingRequests = 0

\* the requests with at least one line item in a category
requestsOfCategory(category) ==
    {r \in 1..Len(requests) :
        \E k \in 1..Len(request_items) :
            /\ request_items[k].request_id = r
            /\ itemsTable[request_items[k].item_id].category_id = category}

RECURSIVE costOfRequests(_)
\* the sum of actual_cost over a set of requests, each once
costOfRequests(rs) ==
    IF rs = {} THEN 0
    ELSE LET r == CHOOSE r \in rs : TRUE
         IN  (IF requests[r].actual_cost = Null THEN 0
              ELSE requests[r].actual_cost[1]) + costOfRequests(rs \ {r})

\* C26: each entry of getReports.topCategories gives requestCount as the
\* number of distinct requests with a line item in the category and
\* totalAmount as the sum of actual_cost over those requests, each request
\* once however many of its lines are in the category; there are at most 5
\* entries, in order of non-increasing requestCount.
C26_TopCategories ==
    LET top == getReports.topCategories
    IN  /\ Len(top) <= 5
        /\ \A j, k \in 1..Len(top) :
              j < k => top[j].requestCount >= top[k].requestCount
        /\ \A k \in 1..Len(top) :
              /\ top[k].requestCount =
                    Cardinality(requestsOfCategory(top[k].category))
              /\ top[k].totalAmount =
                    costOfRequests(requestsOfCategory(top[k].category))

====
